---- MODULE Spec2Model ----
(***************************************************************************)
(* Model of package secure (src/secure.go): key derivation from a          *)
(* passphrase and the package-wide salt, AES-256-GCM sealing, the packed   *)
(* byte layout, the base64 armour with the signature prefix, and the       *)
(* package-wide configuration (gKey, salt, signature) with its setters.    *)
(*                                                                         *)
(* Bytes are the integers 0..255.  A Go []byte and a Go string are both    *)
(* sequences of bytes (a nil slice and an empty slice are both << >>).     *)
(* An error is a record [kind, value]; kind "nil" is the nil error, kind   *)
(* "panic" is a run-time panic of the called function.                     *)
(***************************************************************************)
EXTENDS Integers, Sequences, FiniteSets, TLC

VARIABLES
    gKey,       \* var gKey []byte
    salt,       \* var salt [SaltSz]byte
    signature,  \* var signature string
    op,         \* name of the operation called last
    inS,        \* its string / byte-buffer argument
    inKey,      \* its key or passphrase argument
    inAux,      \* its remaining argument (additional data, or a ciphermsg)
    outS,       \* the string / byte-buffer it returned
    outCm,      \* the ciphermsg it returned (unpack)
    err,        \* the error it returned
    src,        \* where its string argument came from: "fresh" (the caller's own,
                \* held in inS) or made from sealed.s: "sealed", "padded", "tampered"
    sealed,     \* history: the last value an encrypt call returned, and how
    dk,         \* the deriveKey call in flight, when calls run concurrently:
                \* its caller, pass, loop counter i and key, and its position
    ss          \* the SetSalt call in flight: its parameter sa, and its position

vars == <<gKey, salt, signature, op, inS, inKey, inAux, outS, outCm, err, src, sealed,
          dk, ss>>

(***************************************************************************)
(* Program constants.                                                      *)
(***************************************************************************)
nonceSz == 12
keyBits == 256
keySz == keyBits \div 8
adlSz == 1
maxDataSz == (2 ^ (adlSz * 8)) - 1
SaltSz == keySz * 8
gcmTagSize == 16

defaultSignature == <<83, 69, 67, 46>>   \* "SEC."

defaultSalt ==
    <<
       81, 252, 216, 249, 171, 133, 147, 93, 210, 133, 46, 120, 63, 128, 58, 206,
       25, 241, 32, 117, 42, 221, 123, 92, 230, 23, 219, 75, 114, 199, 131, 6,
       16, 145, 112, 51, 66, 13, 117, 249, 184, 20, 57, 90, 207, 174, 106, 236,
       125, 58, 42, 135, 248, 134, 168, 234, 37, 126, 181, 249, 97, 232, 165, 94,
       32, 47, 162, 153, 133, 163, 204, 205, 92, 57, 27, 109, 27, 23, 169, 180,
       235, 149, 221, 251, 190, 60, 44, 59, 233, 125, 93, 62, 120, 55, 35, 218,
       165, 53, 216, 54, 167, 66, 214, 219, 56, 186, 23, 18, 140, 118, 131, 56,
       216, 35, 2, 56, 38, 227, 231, 226, 94, 203, 201, 144, 210, 70, 39, 132,
       119, 65, 107, 181, 122, 74, 79, 69, 170, 171, 80, 167, 88, 53, 232, 169,
       39, 193, 184, 169, 50, 3, 2, 61, 25, 119, 90, 210, 12, 82, 8, 1,
       250, 185, 178, 134, 253, 36, 115, 195, 57, 222, 79, 134, 147, 25, 215, 213,
       101, 0, 241, 45, 12, 111, 60, 33, 208, 198, 39, 153, 5, 25, 124, 13,
       87, 51, 79, 140, 47, 114, 151, 90, 250, 8, 81, 81, 188, 86, 212, 196,
       237, 1, 235, 226, 106, 130, 198, 76, 9, 118, 227, 250, 135, 226, 215, 104,
       19, 165, 207, 50, 162, 22, 108, 83, 80, 45, 210, 88, 228, 103, 24, 123,
       138, 132, 227, 164, 73, 20, 100, 213, 6, 104, 199, 69, 104, 235, 74, 176
    >>

(***************************************************************************)
(* Errors.                                                                 *)
(***************************************************************************)
Error(kind) == [kind |-> kind, value |-> << >>]
NoError == Error("nil")
ErrNotEncrypted == Error("ErrNotEncrypted")
ErrNoEncryptionKey == Error("ErrNoEncryptionKey")
ErrDataOverflow == Error("ErrDataOverflow")
ErrInvalidKeySz == Error("ErrInvalidKeySz")
CipherError(cause) == [kind |-> "CipherError", value |-> cause]
CorruptError(packed) == [kind |-> "CorruptError", value |-> packed]

IsDecipherError(e) == e.kind \in {"CipherError", "CorruptError"}

(***************************************************************************)
(* Byte helpers.                                                           *)
(***************************************************************************)
RECURSIVE Xor(_, _)
Xor(a, b) ==
    IF a = 0 THEN b
    ELSE IF b = 0 THEN a
    ELSE ((a + b) % 2) + 2 * Xor(a \div 2, b \div 2)

Min(a, b) == IF a < b THEN a ELSE b

\* s[lo:hi] of Go, with 0-based bounds lo <= hi <= len(s)
Slice(s, lo, hi) == [i \in 1..(hi - lo) |-> s[lo + i]]

\* copy(dst[at:], from): min(len(dst)-at, len(from)) bytes are copied
Copy(dst, at, from) ==
    LET n == Min(Len(dst) - at, Len(from))
    IN  [i \in 1..Len(dst) |-> IF i > at /\ i <= at + n THEN from[i - at] ELSE dst[i]]

Zeros(n) == [i \in 1..n |-> 0]

(***************************************************************************)
(* Key derivation.                                                         *)
(***************************************************************************)
\* the loop body of deriveKey for the 0-based counter i
\* the loop body with the start offset left out of the salt index
deriveByteNoOffset(pass, startOffset, i) ==
    Xor(pass[(i % Len(pass)) + 1], salt[(i % SaltSz) + 1])

deriveByte(pass, startOffset, i) ==
    Xor(pass[(i % Len(pass)) + 1], salt[((i + startOffset) % SaltSz) + 1])

deriveKey(pass) ==
    IF Len(pass) = 0 THEN [key |-> << >>, err |-> Error("empty passphrase")]
    ELSE IF Len(pass) > keySz THEN [key |-> << >>, err |-> Error("passphrase is too big")]
    ELSE LET startOffset == pass[1]
         IN  IF SaltSz <= startOffset
             THEN [key |-> << >>, err |-> Error("panic")]
             ELSE [key |-> [i \in 1..keySz |-> deriveByte(pass, startOffset, i - 1)],
                   err |-> NoError]

(***************************************************************************)
(* encoding/base64, StdEncoding (padded, not strict).                      *)
(***************************************************************************)
padChar == 61   \* '='

encodeStd(v) ==
    IF v < 26 THEN 65 + v
    ELSE IF v < 52 THEN 97 + (v - 26)
    ELSE IF v < 62 THEN 48 + (v - 52)
    ELSE IF v = 62 THEN 43
    ELSE 47

\* the 6-bit value of an alphabet character, -1 for any other byte
decodeMap(c) ==
    IF c >= 65 /\ c <= 90 THEN c - 65
    ELSE IF c >= 97 /\ c <= 122 THEN c - 97 + 26
    ELSE IF c >= 48 /\ c <= 57 THEN c - 48 + 52
    ELSE IF c = 43 THEN 62
    ELSE IF c = 47 THEN 63
    ELSE -1

EncodeToString(buf) ==
    LET n == Len(buf)
        At(i) == IF i <= n THEN buf[i] ELSE 0
        Char(j) ==
            LET g == (j - 1) \div 4
                k == (j - 1) % 4
                have == Min(3, n - 3 * g)
                val == At(3 * g + 1) * 65536 + At(3 * g + 2) * 256 + At(3 * g + 3)
            IN  IF k > have THEN padChar
                ELSE encodeStd((val \div (64 ^ (3 - k))) % 64)
    IN  [j \in 1..(4 * ((n + 2) \div 3)) |-> Char(j)]

\* DecodeString: '\r' and '\n' are skipped; the rest is quanta of 4 characters,
\* padding allowed in the last quantum only ("xx==" or "xxx=").
DecodeString(s) ==
    LET t == SelectSeq(s, LAMBDA c : c # 10 /\ c # 13)
        n == Len(t)
        q == n \div 4
        Ok(c) == decodeMap(c) >= 0
        QuantumOk(g) ==
            LET c1 == t[4 * g + 1]
                c2 == t[4 * g + 2]
                c3 == t[4 * g + 3]
                c4 == t[4 * g + 4]
            IN  /\ Ok(c1)
                /\ Ok(c2)
                /\ \/ Ok(c3) /\ Ok(c4)
                   \/ g = q - 1 /\ Ok(c3) /\ c4 = padChar
                   \/ g = q - 1 /\ c3 = padChar /\ c4 = padChar
        pads == IF n = 0 THEN 0
                ELSE IF t[n - 1] = padChar THEN 2
                ELSE IF t[n] = padChar THEN 1
                ELSE 0
        V(c) == IF Ok(c) THEN decodeMap(c) ELSE 0
        Byte(i) ==
            LET g == (i - 1) \div 3
                k == (i - 1) % 3
                val == V(t[4 * g + 1]) * 262144 + V(t[4 * g + 2]) * 4096
                       + V(t[4 * g + 3]) * 64 + V(t[4 * g + 4])
            IN  (val \div (256 ^ (2 - k))) % 256
    IN  IF n % 4 # 0 \/ \E g \in 0..(q - 1) : ~QuantumOk(g)
        THEN [out |-> << >>, err |-> Error("base64.CorruptInputError")]
        ELSE [out |-> [i \in 1..(3 * q - pads) |-> Byte(i)], err |-> NoError]

(***************************************************************************)
(* strings.TrimSpace on strings of single-byte characters: the ASCII white *)
(* space '\t' '\n' '\v' '\f' '\r' ' ' is cut from both ends.               *)
(***************************************************************************)
asciiSpace(c) == c \in {9, 10, 11, 12, 13, 32}

RECURSIVE TrimLeft(_)
TrimLeft(s) ==
    IF Len(s) > 0 /\ asciiSpace(s[1]) THEN TrimLeft(Tail(s)) ELSE s

RECURSIVE TrimRight(_)
TrimRight(s) ==
    IF Len(s) > 0 /\ asciiSpace(s[Len(s)]) THEN TrimRight(SubSeq(s, 1, Len(s) - 1)) ELSE s

TrimSpace(s) == TrimRight(TrimLeft(s))

(***************************************************************************)
(* Armour.                                                                 *)
(***************************************************************************)
armor(packed) == signature \o EncodeToString(packed)

unarmor(s) ==
    LET sigSz == Len(signature)
        t == TrimSpace(s)
    IN  IF Len(t) < sigSz \/ Slice(t, 0, sigSz) # signature
        THEN [packed |-> << >>, err |-> ErrNotEncrypted]
        ELSE LET d == DecodeString(Slice(t, sigSz, Len(t)))
             IN  IF d.err # NoError
                 THEN [packed |-> << >>, err |-> d.err]
                 ELSE [packed |-> d.out, err |-> NoError]

(***************************************************************************)
(* Packed layout: |adl|additional data|nonce|ciphertext|.                  *)
(***************************************************************************)
ciphermsg(nonce, ciphertext, additionalData) ==
    [nonce |-> nonce, ciphertext |-> ciphertext, additionalData |-> additionalData]

nilCm == ciphermsg(<< >>, << >>, << >>)

\* pack with the overflow test off by one (>= for >)
packOffByOne(cm) ==
    IF Len(cm.nonce) = 0 THEN [packed |-> << >>, err |-> Error("pack: empty nonce")]
    ELSE IF Len(cm.ciphertext) = 0 THEN [packed |-> << >>, err |-> Error("pack: no ciphertext")]
    ELSE LET dataLen == Len(cm.additionalData)
         IN  IF dataLen >= maxDataSz THEN [packed |-> << >>, err |-> ErrDataOverflow]
             ELSE LET p0 == Zeros(nonceSz + Len(cm.ciphertext) + 1 + dataLen)
                      p1 == [p0 EXCEPT ![1] = dataLen % 256]
                      p2 == IF dataLen > 0 THEN Copy(p1, adlSz, cm.additionalData) ELSE p1
                      p3 == Copy(p2, adlSz + dataLen, cm.nonce)
                      p4 == Copy(p3, adlSz + dataLen + nonceSz, cm.ciphertext)
                  IN  [packed |-> p4, err |-> NoError]

pack(cm) ==
    IF Len(cm.nonce) = 0 THEN [packed |-> << >>, err |-> Error("pack: empty nonce")]
    ELSE IF Len(cm.ciphertext) = 0 THEN [packed |-> << >>, err |-> Error("pack: no ciphertext")]
    ELSE LET dataLen == Len(cm.additionalData)
         IN  IF dataLen > maxDataSz THEN [packed |-> << >>, err |-> ErrDataOverflow]
             ELSE LET p0 == Zeros(nonceSz + Len(cm.ciphertext) + 1 + dataLen)
                      p1 == [p0 EXCEPT ![1] = dataLen % 256]
                      p2 == IF dataLen > 0 THEN Copy(p1, adlSz, cm.additionalData) ELSE p1
                      p3 == Copy(p2, adlSz + dataLen, cm.nonce)
                      p4 == Copy(p3, adlSz + dataLen + nonceSz, cm.ciphertext)
                  IN  [packed |-> p4, err |-> NoError]

\* unpack without the test for an empty ciphertext
unpackNoEmptyTest(packed) ==
    IF Len(packed) = 0 THEN [cm |-> nilCm, err |-> Error("unpack: empty input")]
    ELSE LET dataLen == packed[1]
             payloadSz == Len(packed) - adlSz - nonceSz
         IN  IF dataLen > payloadSz
             THEN [cm |-> nilCm, err |-> CorruptError(packed)]
             ELSE [cm |-> ciphermsg(
                              Slice(packed, adlSz + dataLen, adlSz + dataLen + nonceSz),
                              Slice(packed, adlSz + dataLen + nonceSz, Len(packed)),
                              IF dataLen > 0 THEN Slice(packed, adlSz, adlSz + dataLen)
                              ELSE << >>),
                   err |-> NoError]

\* unpack that takes the additional data from the start of the buffer
unpackDataFromZero(packed) ==
    IF Len(packed) = 0 THEN [cm |-> nilCm, err |-> Error("unpack: empty input")]
    ELSE LET dataLen == packed[1]
             payloadSz == Len(packed) - adlSz - nonceSz
         IN  IF dataLen > payloadSz \/ payloadSz - dataLen = 0
             THEN [cm |-> nilCm, err |-> CorruptError(packed)]
             ELSE [cm |-> ciphermsg(
                              Slice(packed, adlSz + dataLen, adlSz + dataLen + nonceSz),
                              Slice(packed, adlSz + dataLen + nonceSz, Len(packed)),
                              IF dataLen > 0 THEN Slice(packed, 0, dataLen)
                              ELSE << >>),
                   err |-> NoError]

unpack(packed) ==
    IF Len(packed) = 0 THEN [cm |-> nilCm, err |-> Error("unpack: empty input")]
    ELSE LET dataLen == packed[1]
             payloadSz == Len(packed) - adlSz - nonceSz
         IN  IF dataLen > payloadSz \/ payloadSz - dataLen = 0
             THEN [cm |-> nilCm, err |-> CorruptError(packed)]
             ELSE IF adlSz + dataLen + nonceSz > Len(packed)
             THEN [cm |-> nilCm, err |-> Error("panic")]   \* slice bounds out of range
             ELSE [cm |-> ciphermsg(
                              Slice(packed, adlSz + dataLen, adlSz + dataLen + nonceSz),
                              Slice(packed, adlSz + dataLen + nonceSz, Len(packed)),
                              IF dataLen > 0 THEN Slice(packed, adlSz, adlSz + dataLen)
                              ELSE << >>),
                   err |-> NoError]

(***************************************************************************)
(* crypto/aes + crypto/cipher GCM, as an executable stand-in with the      *)
(* interface and the sizes of the real one: Seal returns len(plaintext)    *)
(* bytes of counter-mode ciphertext followed by a gcmTagSize-byte tag over *)
(* (key, nonce, additional data, ciphertext); Open recomputes the tag and  *)
(* releases the plaintext only if it matches.  The tag weighs every input  *)
(* byte with an odd factor, so that changing one byte always changes it.   *)
(***************************************************************************)
initGCM(key) ==
    IF Len(key) \in {16, 24, 32}
    THEN [gcm |-> key, err |-> NoError]
    ELSE [gcm |-> << >>, err |-> Error("aes.KeySizeError")]

keystream(key, nonce, i) ==
    (Xor(key[(i % Len(key)) + 1], nonce[(i % Len(nonce)) + 1]) + 7 * i + 1) % 256

\* the sum over i in lo..hi of (2i+1)*s[i], modulo 256
RECURSIVE weighted(_, _, _)
weighted(s, lo, hi) ==
    IF lo > hi THEN 0
    ELSE IF lo = hi THEN ((2 * lo + 1) * s[lo]) % 256
    ELSE LET mid == (lo + hi) \div 2
         IN  (weighted(s, lo, mid) + weighted(s, mid + 1, hi)) % 256

gcmTag(key, nonce, body, additionalData) ==
    LET mix == 7 * weighted(additionalData, 1, Len(additionalData))
               + 11 * weighted(body, 1, Len(body))
               + 13 * Len(additionalData) + 17 * Len(body)
    IN  [j \in 1..gcmTagSize |->
            (key[((j - 1) % Len(key)) + 1] + 3 * key[((j + 15) % Len(key)) + 1]
             + 5 * nonce[((j - 1) % Len(nonce)) + 1] + mix + j) % 256]

Seal(key, nonce, plaintext, additionalData) ==
    LET body == [i \in 1..Len(plaintext) |-> Xor(plaintext[i], keystream(key, nonce, i - 1))]
    IN  body \o gcmTag(key, nonce, body, additionalData)

Open(key, nonce, ciphertext, additionalData) ==
    IF Len(ciphertext) < gcmTagSize
    THEN [plaintext |-> << >>, err |-> Error("cipher: message authentication failed")]
    ELSE LET n == Len(ciphertext) - gcmTagSize
             body == Slice(ciphertext, 0, n)
             tag == Slice(ciphertext, n, Len(ciphertext))
         IN  IF tag # gcmTag(key, nonce, body, additionalData)
             THEN [plaintext |-> << >>, err |-> Error("cipher: message authentication failed")]
             ELSE [plaintext |-> [i \in 1..n |-> Xor(body[i], keystream(key, nonce, i - 1))],
                   err |-> NoError]

(***************************************************************************)
(* Pipeline.  The nonce that encrypt reads from crypto/rand is a parameter;*)
(* the read itself is taken to succeed.                                    *)
(***************************************************************************)
encrypt(plaintext, key, additionalData, nonce) ==
    IF Len(key) = 0 THEN [s |-> << >>, err |-> ErrNoEncryptionKey]
    ELSE IF Len(key) # keySz THEN [s |-> << >>, err |-> ErrInvalidKeySz]
    ELSE IF Len(plaintext) = 0 THEN [s |-> << >>, err |-> Error("nothing to encrypt")]
    ELSE IF Len(additionalData) > maxDataSz
    THEN [s |-> << >>, err |-> Error("size of additional data can't exceed 255 B")]
    ELSE LET g == initGCM(key)
         IN  IF g.err # NoError THEN [s |-> << >>, err |-> g.err]
             ELSE LET ciphertext == Seal(g.gcm, nonce, plaintext, additionalData)
                      p == pack(ciphermsg(nonce, ciphertext, additionalData))
                  IN  IF p.err # NoError THEN [s |-> << >>, err |-> p.err]
                      ELSE [s |-> armor(p.packed), err |-> NoError]

\* decrypt with the test for an empty key moved before unarmor
decryptKeyFirst(s, key) ==
    IF Len(key) = 0 THEN [s |-> << >>, err |-> ErrNoEncryptionKey]
    ELSE LET u == unarmor(s)
         IN  IF u.err # NoError
             THEN IF u.err = ErrNotEncrypted THEN [s |-> s, err |-> u.err]
                  ELSE [s |-> << >>, err |-> u.err]
             ELSE LET c == unpack(u.packed)
                  IN  IF c.err # NoError THEN [s |-> << >>, err |-> c.err]
                      ELSE LET g == initGCM(key)
                           IN  IF g.err # NoError THEN [s |-> << >>, err |-> g.err]
                               ELSE LET o == Open(g.gcm, c.cm.nonce, c.cm.ciphertext,
                                                  c.cm.additionalData)
                                    IN  IF o.err # NoError
                                        THEN [s |-> << >>, err |-> CipherError(o.err.kind)]
                                        ELSE [s |-> o.plaintext, err |-> NoError]

\* decrypt with unpack ahead of the test for a key
decryptUnpackFirst(s, key) ==
    LET u == unarmor(s)
    IN  IF u.err # NoError
        THEN IF u.err = ErrNotEncrypted THEN [s |-> s, err |-> u.err]
             ELSE [s |-> << >>, err |-> u.err]
        ELSE LET c == unpack(u.packed)
             IN  IF c.err # NoError THEN [s |-> << >>, err |-> c.err]
                 ELSE IF Len(key) = 0 THEN [s |-> << >>, err |-> ErrNoEncryptionKey]
                 ELSE LET g == initGCM(key)
                      IN  IF g.err # NoError THEN [s |-> << >>, err |-> g.err]
                          ELSE LET o == Open(g.gcm, c.cm.nonce, c.cm.ciphertext,
                                             c.cm.additionalData)
                               IN  IF o.err # NoError
                                   THEN [s |-> << >>, err |-> CipherError(o.err.kind)]
                                   ELSE [s |-> o.plaintext, err |-> NoError]

decrypt(s, key) ==
    LET u == unarmor(s)
    IN  IF u.err # NoError
        THEN IF u.err = ErrNotEncrypted THEN [s |-> s, err |-> u.err]
             ELSE [s |-> << >>, err |-> u.err]
        ELSE IF Len(key) = 0 THEN [s |-> << >>, err |-> ErrNoEncryptionKey]
        ELSE LET c == unpack(u.packed)
             IN  IF c.err # NoError THEN [s |-> << >>, err |-> c.err]
                 ELSE LET g == initGCM(key)
                      IN  IF g.err # NoError THEN [s |-> << >>, err |-> g.err]
                          ELSE LET o == Open(g.gcm, c.cm.nonce, c.cm.ciphertext,
                                             c.cm.additionalData)
                               IN  IF o.err # NoError
                                   THEN [s |-> << >>, err |-> CipherError(o.err.kind)]
                                   ELSE [s |-> o.plaintext, err |-> NoError]

Encrypt(plaintext, nonce) == encrypt(plaintext, gKey, << >>, nonce)

Decrypt(s) == decrypt(s, gKey)

EncryptWithPassphrase(plaintext, passphrase, nonce) ==
    LET d == deriveKey(passphrase)
    IN  IF d.err # NoError THEN [s |-> << >>, err |-> d.err]
        ELSE encrypt(plaintext, d.key, << >>, nonce)

DecryptWithPassphrase(s, passphrase) ==
    LET d == deriveKey(passphrase)
    IN  IF d.err # NoError THEN [s |-> << >>, err |-> d.err]
        ELSE decrypt(s, d.key)

(***************************************************************************)
(* Configuration setters.  Each operator gives the new value of the        *)
(* package variable and the error returned.                                *)
(***************************************************************************)
\* setGlobalKey without its length check
setGlobalKeyUnchecked(k) == [gKey |-> k, err |-> NoError]

setGlobalKey(k) ==
    IF Len(k) # keySz THEN [gKey |-> gKey, err |-> ErrInvalidKeySz]
    ELSE [gKey |-> k, err |-> NoError]

SetPassphrase(b) ==
    LET d == deriveKey(b)
    IN  IF d.err # NoError THEN [gKey |-> gKey, err |-> d.err]
        ELSE setGlobalKey(d.key)

SetSignature(s) ==
    IF Len(s) = 0 THEN [signature |-> signature, err |-> Error("panic")]
    ELSE [signature |-> s, err |-> NoError]

SetSalt(sa) == [salt |-> sa, err |-> NoError]

(***************************************************************************)
(* Bounds and the inputs drawn by the actions.                             *)
(***************************************************************************)
MaxPlainLen == 1     \* plaintexts of 0..MaxPlainLen bytes
NumNonces == 1       \* distinct nonces crypto/rand may deliver

Plaintexts == {[i \in 1..n |-> 96 + i] : n \in 0..MaxPlainLen}
Nonces == {[i \in 1..nonceSz |-> (17 * i + c) % 256] : c \in 1..NumNonces}

LongPass == [i \in 1..keySz |-> 256 - i]     \* keySz bytes, first byte 255
ApiPassphrases == {<< >>, <<1>>, LongPass}
Passphrases == ApiPassphrases \cup {<<1, 1>>, Zeros(keySz + 1)}

altSalt == [i \in 1..SaltSz |-> (defaultSalt[i] + i) % 256]
farSalt == [defaultSalt EXCEPT ![101] = (defaultSalt[101] + 1) % 256]
ApiSalts == {defaultSalt, altSalt}
Salts == ApiSalts \cup {farSalt}

spaceSignature == <<32, 83>>                 \* " S"
Signatures == {<< >>, defaultSignature, spaceSignature}

directKey == [i \in 1..keySz |-> (5 * i) % 256]
DirectKeys == {<< >>, Zeros(16), directKey, Zeros(keySz + 1)}

plainText == <<104, 105>>                    \* "hi"
ApiInputs == {plainText}

noneSealed ==
    [via |-> "none", s |-> << >>, packed |-> << >>, pt |-> << >>, pass |-> << >>,
     key |-> << >>, ad |-> << >>, salt |-> defaultSalt, sig |-> defaultSignature]

\* the record of a successful encrypt call; a failed one leaves sealed as it was
Sealing(via, r, pt, pass, key, ad) ==
    IF r.err # NoError THEN sealed
    ELSE [via |-> via, s |-> r.s,
          packed |-> DecodeString(Slice(r.s, Len(signature), Len(r.s))).out,
          pt |-> pt, pass |-> pass, key |-> key, ad |-> ad,
          salt |-> salt, sig |-> signature]

padded(s) == <<32, 32>> \o s \o <<10>>

\* no deriveKey call and no SetSalt call in flight
noCall ==
    [pc |-> "idle", caller |-> "", pass |-> << >>, i |-> 0, key |-> << >>,
     err |-> NoError, snapshots |-> {}]

noStore == [pc |-> "idle", sa |-> defaultSalt]

Init ==
    /\ gKey = << >>
    /\ salt = defaultSalt
    /\ signature = defaultSignature
    /\ op = "init"
    /\ inS = << >>
    /\ inKey = << >>
    /\ inAux = << >>
    /\ outS = << >>
    /\ outCm = nilCm
    /\ err = NoError
    /\ src = "fresh"
    /\ sealed = noneSealed
    /\ dk = noCall
    /\ ss = noStore

(***************************************************************************)
(* The package API.                                                        *)
(***************************************************************************)
CallSetGlobalKey ==
    \E k \in DirectKeys \cup {deriveKey(<<1>>).key} :
        LET r == setGlobalKey(k)
        IN  /\ gKey' = r.gKey
            /\ op' = "setGlobalKey"
            /\ inKey' = k
            /\ err' = r.err
            /\ inS' = << >> /\ inAux' = << >> /\ outS' = << >> /\ outCm' = nilCm
            /\ src' = "fresh"
            /\ UNCHANGED <<dk, ss, salt, signature, sealed>>

SetPassphraseFrom(set) ==
    \E b \in set :
        LET r == SetPassphrase(b)
        IN  /\ gKey' = r.gKey
            /\ op' = "SetPassphrase"
            /\ inKey' = b
            /\ err' = r.err
            /\ inS' = << >> /\ inAux' = << >> /\ outS' = << >> /\ outCm' = nilCm
            /\ src' = "fresh"
            /\ UNCHANGED <<dk, ss, salt, signature, sealed>>

CallSetSignature ==
    \E s \in Signatures :
        LET r == SetSignature(s)
        IN  /\ signature' = r.signature
            /\ op' = "SetSignature"
            /\ inS' = s
            /\ err' = r.err
            /\ inKey' = << >> /\ inAux' = << >> /\ outS' = << >> /\ outCm' = nilCm
            /\ src' = "fresh"
            /\ UNCHANGED <<dk, ss, gKey, salt, sealed>>

SetSaltFrom(set) ==
    \E sa \in set :
        LET r == SetSalt(sa)
        IN  /\ salt' = r.salt
            /\ op' = "SetSalt"
            /\ err' = r.err
            /\ inS' = << >> /\ inKey' = << >> /\ inAux' = << >> /\ outS' = << >>
            /\ outCm' = nilCm
            /\ src' = "fresh"
            /\ UNCHANGED <<dk, ss, gKey, signature, sealed>>

CallEncrypt ==
    \E pt \in Plaintexts, nonce \in Nonces :
        LET r == Encrypt(pt, nonce)
        IN  /\ op' = "Encrypt"
            /\ inS' = pt
            /\ inKey' = << >>
            /\ outS' = r.s
            /\ err' = r.err
            /\ sealed' = Sealing("Encrypt", r, pt, << >>, gKey, << >>)
            /\ inAux' = << >> /\ outCm' = nilCm
            /\ src' = "fresh"
            /\ UNCHANGED <<dk, ss, gKey, salt, signature>>

CallEncryptWithPassphrase ==
    \E pt \in Plaintexts, passphrase \in ApiPassphrases, nonce \in Nonces :
        LET r == EncryptWithPassphrase(pt, passphrase, nonce)
        IN  /\ op' = "EncryptWithPassphrase"
            /\ inS' = pt
            /\ inKey' = passphrase
            /\ outS' = r.s
            /\ err' = r.err
            /\ sealed' = Sealing("EncryptWithPassphrase", r, pt, passphrase,
                                 deriveKey(passphrase).key, << >>)
            /\ inAux' = << >> /\ outCm' = nilCm
            /\ src' = "fresh"
            /\ UNCHANGED <<dk, ss, gKey, salt, signature>>

\* the strings a decrypting call is given: the caller's own, or the sealed value
\* as it was returned, or with white space around it
Argument(kind, fresh) ==
    IF kind = "sealed" THEN sealed.s
    ELSE IF kind = "padded" THEN padded(sealed.s)
    ELSE fresh

ArgumentKinds == IF sealed.via = "none" THEN {"fresh"} ELSE {"fresh", "sealed", "padded"}

CallDecrypt ==
    \E kind \in ArgumentKinds :
      \E fresh \in (IF kind = "fresh" THEN ApiInputs ELSE {<< >>}) :
        LET r == Decrypt(Argument(kind, fresh))
        IN  /\ op' = "Decrypt"
            /\ src' = kind
            /\ inS' = fresh
            /\ inKey' = << >>
            /\ outS' = r.s
            /\ err' = r.err
            /\ inAux' = << >> /\ outCm' = nilCm
            /\ UNCHANGED <<dk, ss, gKey, salt, signature, sealed>>

CallDecryptWithPassphrase ==
    \E kind \in ArgumentKinds, passphrase \in ApiPassphrases :
      \E fresh \in (IF kind = "fresh" THEN ApiInputs ELSE {<< >>}) :
        LET r == DecryptWithPassphrase(Argument(kind, fresh), passphrase)
        IN  /\ op' = "DecryptWithPassphrase"
            /\ src' = kind
            /\ inS' = fresh
            /\ inKey' = passphrase
            /\ outS' = r.s
            /\ err' = r.err
            /\ inAux' = << >> /\ outCm' = nilCm
            /\ UNCHANGED <<dk, ss, gKey, salt, signature, sealed>>

CallSetPassphrase == SetPassphraseFrom(ApiPassphrases)

CallSetSalt == SetSaltFrom(ApiSalts)

Next ==
    \/ CallSetPassphrase
    \/ CallSetSignature
    \/ CallSetSalt
    \/ CallEncrypt
    \/ CallEncryptWithPassphrase
    \/ CallDecrypt
    \/ CallDecryptWithPassphrase

Spec == Init /\ [][Next]_vars

(***************************************************************************)
(* The configuration alone: every way the package variables are written,   *)
(* the unexported setGlobalKey included.                                   *)
(***************************************************************************)
ConfigSetPassphrase == SetPassphraseFrom(Passphrases)

ConfigSetSalt == SetSaltFrom(Salts)

NextConfig ==
    \/ CallSetGlobalKey
    \/ ConfigSetPassphrase
    \/ ConfigSetSalt
    \/ CallSetSignature

SpecConfig == Init /\ [][NextConfig]_vars

(***************************************************************************)
(* The unexported pipeline: encrypt and decrypt with an explicit key and   *)
(* additional data, on the caller's own strings and on sealed values, also *)
(* after one bit of the ciphertext portion of the packed bytes was flipped.*)
(***************************************************************************)
DerivedKeys == {deriveKey(b).key : b \in {<<1>>, <<1, 1>>, LongPass}}

CoreKeys == {<< >>, Zeros(16), Zeros(keySz + 1), deriveKey(<<1>>).key}

AdditionalData == {<< >>, <<1, 2, 3>>, Zeros(maxDataSz), Zeros(maxDataSz + 1)}

CoreInputs ==
    {<< >>,
     <<32, 10>>,
     plainText,
     <<32>> \o plainText \o <<10>>,
     <<83, 69, 67>>,                                   \* "SEC"
     <<83, 69, 67, 32>>,                               \* "SEC "
     defaultSignature,                                 \* "SEC."
     defaultSignature \o <<33>>,                       \* "SEC.!"
     defaultSignature \o <<65, 65, 61, 61>>,           \* "SEC.AA=="
     <<9>> \o defaultSignature \o <<65, 65, 61, 61>>,  \* "\tSEC.AA=="
     spaceSignature,                                   \* " S"
     spaceSignature \o <<65, 65, 61, 61>>,             \* " SAA=="
     <<83, 65, 65, 61, 61>>}                           \* "SAA=="

\* the bytes of the packed message that hold the ciphertext (1-based)
ciphertextPortion ==
    (adlSz + Len(sealed.ad) + nonceSz + 1)..Len(sealed.packed)

FlipBits == {0, 7}   \* the lowest and the highest bit of a byte

flipBit(packed, pos, bit) == [packed EXCEPT ![pos] = Xor(@, 2 ^ bit)]

\* the sealed value, armoured again after the flip
tampered(pos, bit) == sealed.sig \o EncodeToString(flipBit(sealed.packed, pos, bit))

EncryptKeyFrom(keys, ads) ==
    \E pt \in Plaintexts, key \in keys, ad \in ads, nonce \in Nonces :
        LET r == encrypt(pt, key, ad, nonce)
        IN  /\ op' = "encrypt"
            /\ inS' = pt
            /\ inKey' = key
            /\ inAux' = ad
            /\ outS' = r.s
            /\ err' = r.err
            /\ sealed' = Sealing("encrypt", r, pt, << >>, key, ad)
            /\ outCm' = nilCm
            /\ src' = "fresh"
            /\ UNCHANGED <<dk, ss, gKey, salt, signature>>

DecryptKeyFrom(kinds, inputs, keys) ==
    \E kind \in kinds \cap ArgumentKinds, key \in keys :
      \E fresh \in (IF kind = "fresh" THEN inputs ELSE {<< >>}) :
        LET r == decrypt(Argument(kind, fresh), key)
        IN  /\ op' = "decrypt"
            /\ src' = kind
            /\ inS' = fresh
            /\ inKey' = key
            /\ outS' = r.s
            /\ err' = r.err
            /\ inAux' = << >> /\ outCm' = nilCm
            /\ UNCHANGED <<dk, ss, gKey, salt, signature, sealed>>

CallDecryptTampered ==
    /\ sealed.via # "none"
    /\ \E pos \in ciphertextPortion, bit \in FlipBits, key \in DerivedKeys :
        LET r == decrypt(tampered(pos, bit), key)
        IN  /\ op' = "decrypt"
            /\ src' = "tampered"
            /\ inS' = << >>
            /\ inKey' = key
            /\ outS' = r.s
            /\ err' = r.err
            /\ inAux' = << >> /\ outCm' = nilCm
            /\ UNCHANGED <<dk, ss, gKey, salt, signature, sealed>>

\* encrypt, over every kind of key and size of additional data
CallEncryptKey == EncryptKeyFrom(CoreKeys, AdditionalData)

NextEncrypt ==
    \/ CallSetSignature
    \/ CallEncryptKey

SpecEncrypt == Init /\ [][NextEncrypt]_vars

\* decrypt, on the caller's own strings
CallDecryptKey == DecryptKeyFrom({"fresh"}, CoreInputs, CoreKeys)

NextDecrypt ==
    \/ CallSetSignature
    \/ CallDecryptKey

SpecDecrypt == Init /\ [][NextDecrypt]_vars

\* encrypt under a derived key, then decrypt the value or a tampered copy of it
\* under every derived key
CallSeal == EncryptKeyFrom(DerivedKeys, {<< >>, <<1, 2, 3>>})

CallUnseal == DecryptKeyFrom({"sealed", "padded"}, {<< >>}, DerivedKeys)

NextTamper ==
    \/ CallSetSignature
    \/ CallSeal
    \/ CallUnseal
    \/ CallDecryptTampered

SpecTamper == Init /\ [][NextTamper]_vars

\* decrypt of plain, malformed and sealed values under every kind of key
StageKeys == CoreKeys \cup {deriveKey(<<1, 1>>).key}

CallDecryptStage == DecryptKeyFrom({"fresh", "sealed", "padded"}, CoreInputs, StageKeys)

NextStages ==
    \/ CallSetSignature
    \/ CallSeal
    \/ CallDecryptStage

SpecStages == Init /\ [][NextStages]_vars

(***************************************************************************)
(* The Packer alone.                                                       *)
(***************************************************************************)
MaxBufLen == 17      \* unpack is given buffers of 0..MaxBufLen bytes
MaxLenByte == 5      \* whose first byte is 0..MaxLenByte, or 255

testNonce == [i \in 1..nonceSz |-> 204]
PackNonces == {<< >>, testNonce, Zeros(nonceSz - 1), Zeros(nonceSz + 1)}
PackCiphertexts == {<< >>, <<4, 5, 6>>, <<255>>}
PackData == {<< >>, <<1, 2, 3>>, Zeros(maxDataSz), Zeros(maxDataSz + 1)}

Buffers ==
    {<< >>} \cup
    {[i \in 1..n |-> IF i = 1 THEN first ELSE (7 * i) % 256] :
        n \in 1..MaxBufLen, first \in (0..MaxLenByte) \cup {255}}

CallPack ==
    \E nonce \in PackNonces, ciphertext \in PackCiphertexts, additionalData \in PackData :
        LET cm == ciphermsg(nonce, ciphertext, additionalData)
            r == pack(cm)
        IN  /\ op' = "pack"
            /\ inAux' = cm
            /\ outS' = r.packed
            /\ err' = r.err
            /\ inS' = << >> /\ inKey' = << >> /\ outCm' = nilCm
            /\ src' = "fresh"
            /\ UNCHANGED <<dk, ss, gKey, salt, signature, sealed>>

CallUnpack ==
    \E packed \in Buffers :
        LET r == unpack(packed)
        IN  /\ op' = "unpack"
            /\ inS' = packed
            /\ outCm' = r.cm
            /\ err' = r.err
            /\ inKey' = << >> /\ inAux' = << >> /\ outS' = << >>
            /\ src' = "fresh"
            /\ UNCHANGED <<dk, ss, gKey, salt, signature, sealed>>

\* unpack of what pack just returned; inAux keeps the message that was packed
CallUnpackPacked ==
    /\ op = "pack"
    /\ err = NoError
    /\ LET r == unpack(outS)
       IN  /\ op' = "unpack"
           /\ src' = "packed"
           /\ inS' = outS
           /\ outCm' = r.cm
           /\ err' = r.err
           /\ UNCHANGED <<dk, ss, gKey, salt, signature, sealed, inKey, inAux, outS>>

NextPacker ==
    \/ CallPack
    \/ CallUnpack
    \/ CallUnpackPacked

SpecPacker == Init /\ [][NextPacker]_vars

(***************************************************************************)
(* The Armorer alone, under every kind of signature.                       *)
(***************************************************************************)
trailSignature == <<83, 32>>     \* "S "
ArmorSignatures == Signatures \cup {trailSignature}

validPacked == <<3, 1, 2, 3>> \o testNonce \o <<4, 5, 6>>
ArmorBuffers == {<< >>, <<0>>, <<251, 255>>, <<1, 2, 3>>, validPacked}

ArmorSetSignature ==
    \E s \in ArmorSignatures :
        LET r == SetSignature(s)
        IN  /\ signature' = r.signature
            /\ op' = "SetSignature"
            /\ inS' = s
            /\ err' = r.err
            /\ inKey' = << >> /\ inAux' = << >> /\ outS' = << >> /\ outCm' = nilCm
            /\ src' = "fresh"
            /\ UNCHANGED <<dk, ss, gKey, salt, sealed>>

CallArmor ==
    \E packed \in ArmorBuffers :
        /\ op' = "armor"
        /\ inS' = packed
        /\ outS' = armor(packed)
        /\ err' = NoError
        /\ sealed' = [noneSealed EXCEPT !.via = "armor", !.s = armor(packed),
                                        !.packed = packed, !.sig = signature]
        /\ inKey' = << >> /\ inAux' = << >> /\ outCm' = nilCm
        /\ src' = "fresh"
        /\ UNCHANGED <<dk, ss, gKey, salt, signature>>

CallUnarmor ==
    \E kind \in ArgumentKinds :
      \E fresh \in (IF kind = "fresh" THEN CoreInputs ELSE {<< >>}) :
        LET r == unarmor(Argument(kind, fresh))
        IN  /\ op' = "unarmor"
            /\ src' = kind
            /\ inS' = fresh
            /\ outS' = r.packed
            /\ err' = r.err
            /\ inKey' = << >> /\ inAux' = << >> /\ outCm' = nilCm
            /\ UNCHANGED <<dk, ss, gKey, salt, signature, sealed>>

NextArmor ==
    \/ ArmorSetSignature
    \/ CallArmor
    \/ CallUnarmor

SpecArmor == Init /\ [][NextArmor]_vars

(***************************************************************************)
(* Key derivation alone, under every salt.                                 *)
(***************************************************************************)
MaxPassLen == 3      \* passphrases of 0..MaxPassLen bytes, and of keySz-1..keySz+1

FirstBytes == {0, 1, 2, 127, 128, 255}
DerivePassphrases ==
    {[i \in 1..n |-> (first + 3 * (i - 1)) % 256] :
        n \in (0..MaxPassLen) \cup {keySz - 1, keySz, keySz + 1}, first \in FirstBytes}

CallDeriveKey ==
    \E pass \in DerivePassphrases :
        LET r == deriveKey(pass)
        IN  /\ op' = "deriveKey"
            /\ inKey' = pass
            /\ outS' = r.key
            /\ err' = r.err
            /\ inS' = << >> /\ inAux' = << >> /\ outCm' = nilCm
            /\ src' = "fresh"
            /\ UNCHANGED <<dk, ss, gKey, salt, signature, sealed>>

NextDerive ==
    \/ ConfigSetSalt
    \/ CallDeriveKey

SpecDerive == Init /\ [][NextDerive]_vars

(***************************************************************************)
(* SetSalt running concurrently with a call that derives a key.  Nothing   *)
(* in the package orders the two: salt is a plain package variable,        *)
(* SetSalt stores all SaltSz bytes of it with one array assignment, and    *)
(* the loop of deriveKey loads one byte of it per iteration.  While the    *)
(* store is in flight a load of salt[j] returns the byte that was there or *)
(* the byte of sa, whichever order the store is carried out in; the        *)
(* variable salt holds the array as it was until the store has completed.  *)
(***************************************************************************)
raceSalt == [defaultSalt EXCEPT ![3] = (@ + 1) % 256, ![21] = (@ + 1) % 256]
RaceSalts == {defaultSalt, raceSalt}
RacePassphrases == {<< >>, <<1>>, LongPass}
Callers == {"deriveKey", "SetPassphrase"}

\* the arrays a load of salt may take its byte from
visibleSalts == IF ss.pc = "storing" THEN {salt, ss.sa} ELSE {salt}

\* entry of deriveKey, up to the loop
DeriveBegin ==
    /\ dk.pc \in {"idle", "done"}
    /\ \E caller \in Callers, pass \in RacePassphrases :
         LET failed == deriveKey(pass).err
         IN  dk' = [pc |-> IF failed # NoError THEN "done" ELSE "loop",
                    caller |-> caller, pass |-> pass, i |-> 0,
                    key |-> IF failed # NoError THEN << >> ELSE Zeros(keySz),
                    err |-> failed, snapshots |-> visibleSalts]
    /\ UNCHANGED <<gKey, salt, signature, op, inS, inKey, inAux, outS, outCm, err,
                   src, sealed, ss>>

\* one iteration of the loop: key[i] = pass[i%len(pass)] ^ salt[(i+startOffset)%SaltSz]
DeriveStep ==
    /\ dk.pc = "loop"
    /\ dk.i < keySz
    /\ \E mem \in visibleSalts :
         LET startOffset == dk.pass[1]
             b == Xor(dk.pass[(dk.i % Len(dk.pass)) + 1],
                      mem[((dk.i + startOffset) % SaltSz) + 1])
         IN  dk' = [dk EXCEPT !.key[dk.i + 1] = b, !.i = dk.i + 1]
    /\ UNCHANGED <<gKey, salt, signature, op, inS, inKey, inAux, outS, outCm, err,
                   src, sealed, ss>>

\* deriveKey returns key; SetPassphrase hands it to setGlobalKey
DeriveReturn ==
    /\ dk.pc = "loop"
    /\ dk.i = keySz
    /\ dk' = [dk EXCEPT !.pc = "done"]
    /\ gKey' = IF dk.caller = "SetPassphrase" THEN setGlobalKey(dk.key).gKey ELSE gKey
    /\ UNCHANGED <<salt, signature, op, inS, inKey, inAux, outS, outCm, err,
                   src, sealed, ss>>

\* SetSalt is entered with sa and the store to salt begins
SetSaltBegin ==
    /\ ss.pc = "idle"
    /\ \E sa \in RaceSalts :
         /\ ss' = [pc |-> "storing", sa |-> sa]
         /\ dk' = IF dk.pc = "loop"
                  THEN [dk EXCEPT !.snapshots = @ \cup {sa}]
                  ELSE dk
    /\ UNCHANGED <<gKey, salt, signature, op, inS, inKey, inAux, outS, outCm, err,
                   src, sealed>>

\* the store has completed and SetSalt returns
SetSaltEnd ==
    /\ ss.pc = "storing"
    /\ salt' = SetSalt(ss.sa).salt
    /\ ss' = [ss EXCEPT !.pc = "idle"]
    /\ UNCHANGED <<gKey, signature, op, inS, inKey, inAux, outS, outCm, err,
                   src, sealed, dk>>

NextRace ==
    \/ DeriveBegin
    \/ DeriveStep
    \/ DeriveReturn
    \/ SetSaltBegin
    \/ SetSaltEnd

SpecRace == Init /\ [][NextRace]_vars

(***************************************************************************)
(* Claims.                                                                 *)
(***************************************************************************)
whole == src = "sealed"   \* the argument is the sealed value as it was returned

\* C1: for every non-empty plaintext p and passphrase k of 1..32 bytes,
\* EncryptWithPassphrase(p, k) succeeds, and DecryptWithPassphrase of its result
\* with the same k, salt and signature as they were, returns p with no error.
C1_RoundTrip ==
    /\ (op = "EncryptWithPassphrase" /\ Len(inS) > 0 /\ Len(inKey) \in 1..keySz)
           => err = NoError
    /\ (/\ op = "DecryptWithPassphrase"
        /\ whole
        /\ sealed.via = "EncryptWithPassphrase"
        /\ inKey = sealed.pass
        /\ salt = sealed.salt
        /\ signature = sealed.sig)
           => (err = NoError /\ outS = sealed.pt)

\* the state part of C8: the size of the current key, and the errors of the calls
C8_State ==
    /\ gKey = << >> \/ Len(gKey) = keySz
    /\ (op = "setGlobalKey" /\ Len(inKey) # keySz) => err = ErrInvalidKeySz
    /\ (op = "SetPassphrase" /\ Len(inKey) = 0) => err = Error("empty passphrase")
    /\ (op = "SetPassphrase" /\ Len(inKey) > keySz) => err = Error("passphrase is too big")

\* the step part of C8: a rejected call does not write the current key
C8_Step ==
    (op' \in {"setGlobalKey", "SetPassphrase"} /\ err' # NoError) => gKey' = gKey

\* C8: the current key is absent or keySz bytes long in every state; setGlobalKey
\* rejects any other length with ErrInvalidKeySz, SetPassphrase rejects an empty or
\* over-long passphrase with deriveKey's error, and a rejected call leaves the
\* current key as it was.
C8_CurrentKey == [](C8_State) /\ [][C8_Step]_vars

\* a SetPassphrase call is rejected while a key is in place
C8_Witness ==
    /\ op = "SetPassphrase"
    /\ err # NoError
    /\ Len(gKey) = keySz

\* C2: when the trimmed input is shorter than the signature or does not start
\* with it, decrypt returns the input exactly as passed in, with ErrNotEncrypted,
\* whatever the key (empty and wrong-sized keys included).
notSigned(s) ==
    LET t == TrimSpace(s)
    IN  Len(t) < Len(signature) \/ SubSeq(t, 1, Len(signature)) # signature

C2_NotEncrypted ==
    (op = "decrypt" /\ src = "fresh" /\ notSigned(inS))
        => (outS = inS /\ err = ErrNotEncrypted)

\* an input with white space around it, given with an empty key, comes back whole
C2_Witness ==
    /\ op = "decrypt"
    /\ src = "fresh"
    /\ notSigned(inS)
    /\ TrimSpace(inS) # inS
    /\ Len(inKey) = 0
    /\ outS = inS
    /\ err = ErrNotEncrypted

\* C3: a value sealed under one derived key fails to decrypt, with a decipher-class
\* error and no plaintext, under any other derived key, and under any key after one
\* bit of its ciphertext portion was flipped.
C3_TamperWrongKey ==
    (/\ op = "decrypt"
     /\ sealed.via = "encrypt"
     /\ signature = sealed.sig
     /\ \/ src = "tampered"
        \/ src \in {"sealed", "padded"} /\ inKey # sealed.key)
        => (IsDecipherError(err) /\ outS = << >>)

\* C4: unpack fails with CorruptError for every buffer shorter than 1+nonceSz+1
\* bytes, for every buffer whose length byte exceeds len(buf)-1-nonceSz and for
\* every buffer that leaves no ciphertext byte; so does the buffer [0].
malformed(buf) ==
    \/ Len(buf) < adlSz + nonceSz + 1
    \/ buf[1] > Len(buf) - adlSz - nonceSz
    \/ Len(buf) - adlSz - nonceSz - buf[1] = 0

C4_Unpack ==
    (op = "unpack" /\ malformed(inS)) => err.kind = "CorruptError"

\* C4 as amended: the same for every buffer that is not empty, the error carrying
\* the buffer; the empty buffer fails with the plain error "unpack: empty input";
\* every other buffer is unpacked.
C4_UnpackAmended ==
    op = "unpack" =>
        /\ (Len(inS) > 0 /\ malformed(inS)) => err = CorruptError(inS)
        /\ Len(inS) = 0 => err = Error("unpack: empty input")
        /\ inS = <<0>> => err = CorruptError(<<0>>)
        /\ ~malformed(inS) => err = NoError

\* a buffer long enough for the nonce whose length byte leaves no ciphertext
C4_Witness ==
    /\ op = "unpack"
    /\ Len(inS) >= adlSz + nonceSz + 1
    /\ inS[1] > 0
    /\ Len(inS) - adlSz - nonceSz - inS[1] = 0
    /\ err = CorruptError(inS)

\* C5: pack fails with ErrDataOverflow for every message whose additional data is
\* longer than maxDataSz; with at most maxDataSz bytes of additional data and a
\* non-empty nonce and ciphertext it succeeds, byte 0 being len(additionalData).
C5_Pack ==
    op = "pack" =>
        /\ Len(inAux.additionalData) > maxDataSz => err = ErrDataOverflow
        /\ (/\ Len(inAux.additionalData) <= maxDataSz
            /\ Len(inAux.nonce) > 0
            /\ Len(inAux.ciphertext) > 0)
               => (err = NoError /\ outS[1] = Len(inAux.additionalData))

\* C5 as amended: the overflow error is returned when the nonce and the ciphertext
\* are not empty; a message with an empty nonce or ciphertext fails with the plain
\* packing error, whatever the length of its additional data.
C5_PackAmended ==
    op = "pack" =>
        /\ (/\ Len(inAux.additionalData) > maxDataSz
            /\ Len(inAux.nonce) > 0
            /\ Len(inAux.ciphertext) > 0) => err = ErrDataOverflow
        /\ Len(inAux.nonce) = 0 => err = Error("pack: empty nonce")
        /\ (Len(inAux.nonce) > 0 /\ Len(inAux.ciphertext) = 0)
               => err = Error("pack: no ciphertext")
        /\ (/\ Len(inAux.additionalData) <= maxDataSz
            /\ Len(inAux.nonce) > 0
            /\ Len(inAux.ciphertext) > 0)
               => (err = NoError /\ outS[1] = Len(inAux.additionalData))

\* a message with exactly maxDataSz bytes of additional data is packed
C5_Witness ==
    /\ op = "pack"
    /\ Len(inAux.additionalData) = maxDataSz
    /\ err = NoError
    /\ outS[1] = maxDataSz

\* C6: for every buffer and every non-empty signature, unarmor of armor(buf), bare
\* or with white space before and after it, succeeds and yields buf.
C6_ArmorRoundTrip ==
    (/\ op = "unarmor"
     /\ src \in {"sealed", "padded"}
     /\ sealed.via = "armor"
     /\ signature = sealed.sig)
        => (err = NoError /\ outS = sealed.packed)

\* C7: for a passphrase of 1..keySz bytes deriveKey returns keySz bytes,
\* key[i] = pass[i mod len(pass)] XOR salt[(i + pass[0]) mod SaltSz], and does not
\* panic; it fails for an empty passphrase and for one longer than keySz bytes.
bitXor(a, b) ==
    LET bit(x, k) == (x \div (2 ^ k)) % 2
        F[k \in 0..8] ==
            IF k = 8 THEN 0 ELSE ((bit(a, k) + bit(b, k)) % 2) * (2 ^ k) + F[k + 1]
    IN  F[0]

armoured(s) ==
    /\ Len(s) >= Len(signature)
    /\ SubSeq(s, 1, Len(signature)) = signature
    /\ DecodeString(SubSeq(s, Len(signature) + 1, Len(s))).err = NoError

C9_EncryptErrors ==
    op = "encrypt" =>
        /\ Len(inKey) = 0 => err = ErrNoEncryptionKey
        /\ Len(inKey) \notin {0, keySz} => err = ErrInvalidKeySz
        /\ (Len(inKey) = keySz /\ Len(inS) = 0) => err = Error("nothing to encrypt")
        /\ (Len(inKey) = keySz /\ Len(inS) > 0 /\ Len(inAux) > maxDataSz)
               => err = ErrDataOverflow
        /\ err # NoError => outS = << >>
        /\ (Len(inKey) = keySz /\ Len(inS) > 0 /\ Len(inAux) <= maxDataSz)
               => (err = NoError /\ armoured(outS))

\* C10: once the salt differs from the one in effect when a value was encrypted,
\* Decrypt with the current key and DecryptWithPassphrase with the original
\* passphrase both fail on that value instead of returning the plaintext.
C10_SaltChanged ==
    (/\ src \in {"sealed", "padded"}
     /\ salt # sealed.salt
     /\ \/ op = "Decrypt"
        \/ (/\ op = "DecryptWithPassphrase"
            /\ sealed.via = "EncryptWithPassphrase"
            /\ inKey = sealed.pass))
        => (err # NoError /\ outS # sealed.pt)

\* the string decrypt was given
argument == Argument(src, inS)

\* C11: decrypt reports the earliest failing stage in the order unarmor, test for
\* a key, unpack, Open: malformed base64 behind the signature gives the encoding
\* error even with an empty key; after unarmor an empty key gives
\* ErrNoEncryptionKey even when the packed bytes are malformed; a failure of
\* unpack gives CorruptError; a failure of Open gives CipherError; every failure
\* but ErrNotEncrypted returns "".
C11_DecryptStages ==
    op = "decrypt" =>
        LET u == unarmor(argument)
            c == unpack(u.packed)
            g == initGCM(inKey)
        IN  /\ u.err \notin {NoError, ErrNotEncrypted}
                   => err = Error("base64.CorruptInputError")
            /\ (u.err = NoError /\ Len(inKey) = 0) => err = ErrNoEncryptionKey
            /\ (u.err = NoError /\ Len(inKey) > 0 /\ c.err # NoError)
                   => err.kind = "CorruptError"
            /\ (/\ u.err = NoError /\ Len(inKey) > 0 /\ c.err = NoError
                 /\ g.err = NoError
                 /\ Open(g.gcm, c.cm.nonce, c.cm.ciphertext,
                         c.cm.additionalData).err # NoError)
                   => err.kind = "CipherError"
            /\ err \notin {NoError, ErrNotEncrypted} => outS = << >>

\* C11 as amended: the same, except that packed bytes of length 0 (the input is
\* the signature alone) give the plain error "unpack: empty input", malformed
\* packed bytes of any other length give CorruptError carrying them, and between
\* unpack and Open a key of a size the cipher rejects gives the cipher's own
\* key-size error; when no stage fails the plaintext is returned.
C11_DecryptStagesAmended ==
    op = "decrypt" =>
        LET u == unarmor(argument)
            c == unpack(u.packed)
            g == initGCM(inKey)
            o == Open(g.gcm, c.cm.nonce, c.cm.ciphertext, c.cm.additionalData)
        IN  /\ u.err = ErrNotEncrypted => (err = ErrNotEncrypted /\ outS = argument)
            /\ u.err \notin {NoError, ErrNotEncrypted}
                   => err = Error("base64.CorruptInputError")
            /\ (u.err = NoError /\ Len(inKey) = 0) => err = ErrNoEncryptionKey
            /\ (u.err = NoError /\ Len(inKey) > 0 /\ Len(u.packed) = 0)
                   => err = Error("unpack: empty input")
            /\ (u.err = NoError /\ Len(inKey) > 0 /\ Len(u.packed) > 0 /\ c.err # NoError)
                   => err = CorruptError(u.packed)
            /\ (u.err = NoError /\ Len(inKey) > 0 /\ c.err = NoError /\ g.err # NoError)
                   => err = Error("aes.KeySizeError")
            /\ (/\ u.err = NoError /\ Len(inKey) > 0 /\ c.err = NoError
                 /\ g.err = NoError)
                   => IF o.err # NoError THEN err.kind = "CipherError"
                      ELSE err = NoError /\ outS = o.plaintext
            /\ err \notin {NoError, ErrNotEncrypted} => outS = << >>

\* a signed value whose packed bytes are malformed, given with an empty key
C11_Witness ==
    /\ op = "decrypt"
    /\ Len(inKey) = 0
    /\ unarmor(argument).err = NoError
    /\ Len(unarmor(argument).packed) > 0
    /\ unpack(unarmor(argument).packed).err # NoError
    /\ err = ErrNoEncryptionKey
    /\ outS = << >>

\* the derivation formula applied to one array s
derivedFrom(pass, s) ==
    [i \in 1..keySz |->
        bitXor(pass[((i - 1) % Len(pass)) + 1], s[((i - 1 + pass[1]) % SaltSz) + 1])]

\* C12: a key derived while SetSalt runs is the derivation formula applied wholly
\* to the salt before the change or wholly to the salt after it (one of the
\* arrays that were in salt, or on their way into it, during the call), never
\* to a mixture of bytes of both.
C12_SaltSnapshot ==
    (dk.pc = "done" /\ dk.err = NoError)
        => \E s \in dk.snapshots : dk.key = derivedFrom(dk.pass, s)

\* C13: for every message pack accepts (nonce and ciphertext not empty, at most
\* maxDataSz bytes of additional data) unpack of the packed bytes succeeds and
\* returns the nonce, the ciphertext and the additional data of the message, and
\* the packed bytes are 1 + len(additionalData) + nonceSz + len(ciphertext) long.
C13_PackRoundTrip ==
    (op = "unpack" /\ src = "packed")
        => /\ err = NoError
           /\ outCm.nonce = inAux.nonce
           /\ outCm.ciphertext = inAux.ciphertext
           /\ outCm.additionalData = inAux.additionalData
           /\ Len(inS) = adlSz + Len(inAux.additionalData) + nonceSz
                             + Len(inAux.ciphertext)

\* C13 as amended: the same for every accepted message whose nonce is nonceSz
\* bytes long; for an accepted message with a nonce of another length the length
\* of the packed bytes, the ciphertext and the additional data are as stated, but
\* the nonce comes back cut or zero-filled to nonceSz bytes.
C13_PackRoundTripAmended ==
    (op = "unpack" /\ src = "packed")
        => /\ err = NoError
           /\ outCm.ciphertext = inAux.ciphertext
           /\ outCm.additionalData = inAux.additionalData
           /\ Len(inS) = adlSz + Len(inAux.additionalData) + nonceSz
                             + Len(inAux.ciphertext)
           /\ Len(inAux.nonce) = nonceSz => outCm.nonce = inAux.nonce
           /\ outCm.nonce = SubSeq(inAux.nonce \o Zeros(nonceSz), 1, nonceSz)

\* a message with additional data and a nonce of nonceSz bytes came back whole
C13_Witness ==
    /\ op = "unpack"
    /\ src = "packed"
    /\ Len(inAux.nonce) = nonceSz
    /\ Len(inAux.additionalData) = maxDataSz
    /\ err = NoError
    /\ outCm = inAux

====
